---- MODULE Spec2Model ----
(***************************************************************************)
(* The advertising-platform API (FastAPI + SQLAlchemy): the entity store   *)
(* (countries, operators, advertisers, publishers, campaigns, users), the  *)
(* crud functions of crud.py, the endpoints of main.py and the token       *)
(* functions of auth.py.                                                   *)
(*                                                                         *)
(* A crud function is an operator from the committed store and the request *)
(* to an outcome [db, status, detail]: the store it leaves committed and   *)
(* the HTTP status and detail the caller receives.  An endpoint of main.py *)
(* is an action that applies the crud function it calls, with the          *)
(* endpoint's own except clauses.                                          *)
(*                                                                         *)
(* The engine behind SessionLocal (database.py) is not part of the source  *)
(* tree; following the design document it is taken to enforce the unique   *)
(* and foreign-key constraints that models.py declares, and to make a      *)
(* session's writes visible to others only at commit.                      *)
(*                                                                         *)
(* An outcome is what the handler's body decides.  The serialisation of a  *)
(* handler's return value through the endpoint's response_model is the     *)
(* framework's and is not modelled.                                        *)
(***************************************************************************)
EXTENDS Integers, FiniteSets, Sequences, TLC

VARIABLES db, users, tokens, now, last, tx, inflight
vars == <<db, users, tokens, now, last, tx, inflight>>

\* ------------------------------------------------------------------ bounds
\* The largest primary key each table hands out.
MaxCountries == 2
MaxOperators == 2
MaxAdvertisers == 1
MaxPublishers == 1
MaxCampaigns == 2

\* The users table's largest primary key, the tokens a run issues, the clock's
\* last reading and the minutes between two readings.
MaxUsers == 2
MaxTokens == 2
MaxTime == 45
TickMinutes == 15

\* A NULL column value (models.py: every foreign-key column is nullable).
NULL == -1
\* An absent optional field of a request body (pydantic Optional = None).
None == "None"

\* ------------------------------------------------------------ table helpers
Insert(t, id, row) == [i \in (DOMAIN t) \cup {id} |-> IF i = id THEN row ELSE t[i]]
Remove(t, ids) == [i \in (DOMAIN t) \ ids |-> t[i]]
EmptyTable == [i \in {} |-> 0]

\* ------------------------------------------------- constraints of models.py
\* unique=True columns.  Operator.email and Publisher.email are never written
\* by crud.py (they stay NULL, and NULLs do not collide), so they carry no row
\* data here.
UniqueOn(t, col) == \A i, j \in DOMAIN t : t[i][col] = t[j][col] => i = j

CampaignNameUnique_NotDeclared(d) == TRUE

\* Campaign.name: unique=True and UniqueConstraint('name').
CampaignNameUnique(d) == UniqueOn(d.campaigns, "name")

UniqueHold_NotDeclared(d) == TRUE

UniqueHold(d) ==
    /\ UniqueOn(d.countries, "countryCode")
    /\ UniqueOn(d.countries, "name")
    /\ UniqueOn(d.publishers, "name")
    /\ UniqueOn(d.advertisers, "email")
    /\ CampaignNameUnique(d)

\* A ForeignKey column holds NULL or the id of a row of the referenced table.
Refers(v, t) == v = NULL \/ v \in DOMAIN t

OperatorFK_NotDeclared(d) == TRUE

OperatorFK(d) == \A o \in DOMAIN d.operators : Refers(d.operators[o].country_id, d.countries)

AdvertiserFK(d) ==
    \A a \in DOMAIN d.advertisers :
        /\ Refers(d.advertisers[a].country_id, d.countries)
        /\ Refers(d.advertisers[a].operator_id, d.operators)

CampaignAdvertiserFK_NotDeclared(d) == TRUE

CampaignAdvertiserFK(d) ==
    \A k \in DOMAIN d.campaigns :
        /\ Refers(d.campaigns[k].advertiser_id, d.advertisers)
        /\ Refers(d.campaigns[k].redirection_advertiser_id, d.advertisers)

CampaignFK(d) ==
    /\ \A k \in DOMAIN d.campaigns :
        /\ Refers(d.campaigns[k].publisher_id, d.publishers)
        /\ Refers(d.campaigns[k].country_id, d.countries)
        /\ Refers(d.campaigns[k].operator_id, d.operators)
    /\ CampaignAdvertiserFK(d)

ForeignKeysHold(d) == OperatorFK(d) /\ AdvertiserFK(d) /\ CampaignFK(d)

\* The engine accepts a flush exactly when the declared constraints hold of
\* the rows it would leave; otherwise the statement raises IntegrityError.
engine_enforces_constraints == TRUE

flush_ok(d) == engine_enforces_constraints => (UniqueHold(d) /\ ForeignKeysHold(d))

\* ----------------------------------------------------------------- outcomes
Ok(d) == [db |-> d, status |-> 200, detail |-> "OK"]
\* raise HTTPException(status_code, detail): nothing was committed.
HTTPException(d, status_code, detail) == [db |-> d, status |-> status_code, detail |-> detail]
\* An exception no handler catches: get_db closes the session (rolling the
\* transaction back) and the framework answers 500.
Unhandled(d, what) == [db |-> d, status |-> 500, detail |-> what]
commit_keeps_pending(d, cand) ==
    IF flush_ok(cand) THEN Ok(cand) ELSE Unhandled(cand, "IntegrityError")

\* db.commit(): the pending rows are flushed and committed, or the flush
\* raises IntegrityError and the committed store stays as it was.
commit(d, cand) == IF flush_ok(cand) THEN Ok(cand) ELSE Unhandled(d, "IntegrityError")

\* The primary key the engine gives the next row of a table: one more than
\* the largest id in it.
MaxId(t) == IF DOMAIN t = {} THEN 0 ELSE CHOOSE i \in DOMAIN t : \A j \in DOMAIN t : j <= i
NextId(t) == MaxId(t) + 1
\* An id that names no row of the table.
Missing(t) == NextId(t)
\* The ids a request may name for a table: each row's, and one that is absent.
Refs(t) == (DOMAIN t) \cup {Missing(t)}

\* The oldest row of a table, if it has any.
Oldest(t) == {i \in DOMAIN t : \A j \in DOMAIN t : i <= j}

\* A one-to-many relationship() declared on the parent with the default
\* cascade: when the parent is deleted through the session, the unit of work
\* loads the children and sets their foreign key to NULL before the DELETE.
Nullify(t, col, id) ==
    [i \in DOMAIN t |-> IF t[i][col] = id THEN [t[i] EXCEPT ![col] = NULL] ELSE t[i]]

Patched_overwriting(row, patch) ==
    [f \in DOMAIN row |->
        IF f \in DOMAIN patch THEN patch[f]
        ELSE IF f \in {"publisher_id", "country_id", "operator_id", "advertiser_id"}
        THEN NULL
        ELSE row[f]]

\* setattr(row, key, value) for every key of the patch whose value is not
\* None: a patch is the function from the supplied fields to their values.
Patched(row, patch) ==
    [f \in DOMAIN row |-> IF f \in DOMAIN patch THEN patch[f] ELSE row[f]]

\* ------------------------------------------------------------ Country CRUD
create_country(d, country) ==
    LET id == NextId(d.countries)
        db_country == [countryCode |-> country.countryCode, name |-> country.name]
    IN commit(d, [d EXCEPT !.countries = Insert(@, id, db_country)])

update_country(d, country_id, country) ==
    IF country_id \notin DOMAIN d.countries
    THEN HTTPException(d, 404, "Country not found")
    ELSE commit(d, [d EXCEPT !.countries[country_id] = Patched(@, country)])

linked_operators_unchecked(d, country_id) == FALSE

\* db.query(Operator).filter(Operator.country_id == country_id).first()
linked_operators(d, country_id) ==
    \E o \in DOMAIN d.operators : d.operators[o].country_id = country_id

session_delete_country_passive(d, country_id) ==
    [d EXCEPT !.countries = Remove(@, {country_id})]

\* db.delete(country): Country.operators, Country.advertisers and
\* Country.campaigns are relationships of the parent.
session_delete_country(d, country_id) ==
    [d EXCEPT !.countries = Remove(@, {country_id}),
              !.operators = Nullify(@, "country_id", country_id),
              !.advertisers = Nullify(@, "country_id", country_id),
              !.campaigns = Nullify(@, "country_id", country_id)]

\* The lookup and the scan of delete_country.
country_guard(d, country_id) ==
    IF country_id \notin DOMAIN d.countries
    THEN HTTPException(d, 404, "Country not found")
    ELSE IF linked_operators(d, country_id)
    THEN HTTPException(d, 400, "Cannot delete country with linked operators")
    ELSE Ok(d)

delete_country(d, country_id) ==
    LET guard == country_guard(d, country_id)
    IN IF guard.status # 200 THEN guard
       ELSE commit(d, session_delete_country(d, country_id))

\* ----------------------------------------------------------- Operator CRUD
\* The country lookup of create_operator.
operator_country(d, operator) ==
    IF operator.country_id \notin DOMAIN d.countries
    THEN HTTPException(d, 404, "Country not found")
    ELSE Ok(d)

\* Operator(...); db.add; db.commit
insert_operator(d, operator) ==
    LET id == NextId(d.operators)
        db_operator == [name |-> operator.name, country_id |-> operator.country_id]
    IN commit(d, [d EXCEPT !.operators = Insert(@, id, db_operator)])

create_operator(d, operator) ==
    LET found == operator_country(d, operator)
    IN IF found.status # 200 THEN found ELSE insert_operator(d, operator)

update_operator(d, operator_id, operator) ==
    IF operator_id \notin DOMAIN d.operators
    THEN HTTPException(d, 404, "Operator not found")
    ELSE commit(d, [d EXCEPT !.operators[operator_id] = Patched(@, operator)])

linked_advertisers_unchecked(d, operator_id) == FALSE

linked_advertisers(d, operator_id) ==
    \E a \in DOMAIN d.advertisers : d.advertisers[a].operator_id = operator_id

linked_campaigns_unchecked(d, operator_id) == FALSE

linked_campaigns(d, operator_id) ==
    \E k \in DOMAIN d.campaigns : d.campaigns[k].operator_id = operator_id

\* db.delete(db_operator): Operator.advertisers and Operator.campaigns are
\* relationships of the parent.
session_delete_operator(d, operator_id) ==
    [d EXCEPT !.operators = Remove(@, {operator_id}),
              !.advertisers = Nullify(@, "operator_id", operator_id),
              !.campaigns = Nullify(@, "operator_id", operator_id)]

\* The lookup and the two scans of delete_operator.
operator_guard(d, operator_id) ==
    IF operator_id \notin DOMAIN d.operators
    THEN HTTPException(d, 404, "Operator not found")
    ELSE IF linked_advertisers(d, operator_id)
    THEN HTTPException(d, 400, "Cannot delete operator with linked advertisers")
    ELSE IF linked_campaigns(d, operator_id)
    THEN HTTPException(d, 400, "Cannot delete operator with linked campaigns")
    ELSE Ok(d)

delete_operator(d, operator_id) ==
    LET guard == operator_guard(d, operator_id)
    IN IF guard.status # 200 THEN guard
       ELSE commit(d, session_delete_operator(d, operator_id))

\* --------------------------------------------------------- Advertiser CRUD
create_advertiser(d, advertiser) ==
    LET id == NextId(d.advertisers)
        db_advertiser == [email |-> advertiser.email,
                          operator_id |-> advertiser.operator_id,
                          country_id |-> advertiser.country_id]
    IN commit(d, [d EXCEPT !.advertisers = Insert(@, id, db_advertiser)])

update_advertiser(d, advertiser_id, advertiser) ==
    IF advertiser_id \notin DOMAIN d.advertisers
    THEN HTTPException(d, 404, "Advertiser not found")
    ELSE commit(d, [d EXCEPT !.advertisers[advertiser_id] = Patched(@, advertiser)])

\* db.delete(db_advertiser): no relationship leads from Advertiser to its
\* campaigns, so the session issues the DELETE alone.
delete_advertiser(d, advertiser_id) ==
    IF advertiser_id \notin DOMAIN d.advertisers
    THEN HTTPException(d, 404, "Advertiser not found")
    ELSE commit(d, [d EXCEPT !.advertisers = Remove(@, {advertiser_id})])

\* ---------------------------------------------------------- Publisher CRUD
create_publisher(d, publisher) ==
    LET id == NextId(d.publishers)
    IN commit(d, [d EXCEPT !.publishers = Insert(@, id, [name |-> publisher.name])])

update_publisher(d, publisher_id, publisher) ==
    IF publisher_id \notin DOMAIN d.publishers
    THEN HTTPException(d, 404, "Publisher not found")
    ELSE commit(d, [d EXCEPT !.publishers[publisher_id] = Patched(@, publisher)])

publisher_campaigns_first_only(d, publisher_id) ==
    LET all == {k \in DOMAIN d.campaigns : d.campaigns[k].publisher_id = publisher_id}
    IN IF all = {} THEN {} ELSE {CHOOSE k \in all : \A j \in all : k <= j}

publisher_campaigns_unfiltered(d, publisher_id) == DOMAIN d.campaigns

\* The rows db.query(Campaign).filter(Campaign.publisher_id == id) selects.
publisher_campaigns(d, publisher_id) ==
    {k \in DOMAIN d.campaigns : d.campaigns[k].publisher_id = publisher_id}

\* query.delete(): the bulk DELETE of the publisher's campaigns.
bulk_delete_campaigns(d, publisher_id) ==
    [d EXCEPT !.campaigns = Remove(@, publisher_campaigns(d, publisher_id))]

bulk_delete_autocommit(d, publisher_id) == bulk_delete_campaigns(d, publisher_id)

\* The committed store once the bulk DELETE has run: delete_publisher commits
\* once, after db.delete(db_publisher), so the statement's effect stays inside
\* the session's open transaction.
bulk_delete_in_transaction(d, publisher_id) == d

delete_publisher(d, publisher_id) ==
    IF publisher_id \notin DOMAIN d.publishers
    THEN HTTPException(d, 404, "Publisher not found")
    ELSE LET d1 == bulk_delete_campaigns(d, publisher_id)
             d2 == [d1 EXCEPT !.publishers = Remove(@, {publisher_id})]
         IN commit(d, d2)

\* ----------------------------------------------------------- Campaign CRUD
\* schemas.CampaignCreate declares name, the prices, fallbackEnabled and the
\* four mandatory ids; redirection_advertiser_id is commented out, so pydantic
\* drops that key of the request body.
CampaignCreate(body) ==
    [name |-> body.name,
     publisher_id |-> body.publisher_id,
     country_id |-> body.country_id,
     operator_id |-> body.operator_id,
     advertiser_id |-> body.advertiser_id,
     fallbackEnabled |-> body.fallbackEnabled]

\* The four lookups of create_campaign, in the order of the code.
campaign_references(d, campaign) ==
    IF campaign.publisher_id \notin DOMAIN d.publishers
    THEN HTTPException(d, 404, "Publisher not found")
    ELSE IF campaign.country_id \notin DOMAIN d.countries
    THEN HTTPException(d, 404, "Country not found")
    ELSE IF campaign.operator_id \notin DOMAIN d.operators
    THEN HTTPException(d, 404, "Operator not found")
    ELSE IF campaign.advertiser_id \notin DOMAIN d.advertisers
    THEN HTTPException(d, 404, "Advertiser not found")
    ELSE Ok(d)

\* Campaign(...); try: db.add, db.commit; except IntegrityError: db.rollback()
\* and 400, whichever constraint the flush broke.
insert_campaign(d, campaign) ==
    LET id == NextId(d.campaigns)
        db_campaign == [name |-> campaign.name,
                        publisher_id |-> campaign.publisher_id,
                        country_id |-> campaign.country_id,
                        operator_id |-> campaign.operator_id,
                        advertiser_id |-> campaign.advertiser_id,
                        fallbackEnabled |-> campaign.fallbackEnabled,
                        redirection_advertiser_id |-> NULL]
        out == commit(d, [d EXCEPT !.campaigns = Insert(@, id, db_campaign)])
    IN IF out.status = 500 /\ out.detail = "IntegrityError"
       THEN HTTPException(d, 400, "Campaign with this name already exists")
       ELSE out

create_campaign(d, campaign) ==
    LET found == campaign_references(d, campaign)
    IN IF found.status # 200 THEN found ELSE insert_campaign(d, campaign)

update_campaign(d, campaign_id, campaign) ==
    IF campaign_id \notin DOMAIN d.campaigns
    THEN HTTPException(d, 404, "Campaign not found")
    ELSE commit(d, [d EXCEPT !.campaigns[campaign_id] = Patched(@, campaign)])

delete_campaign_with_siblings(d, campaign_id) ==
    IF campaign_id \notin DOMAIN d.campaigns
    THEN HTTPException(d, 404, "Campaign not found")
    ELSE commit(d, bulk_delete_campaigns(d, d.campaigns[campaign_id].publisher_id))

delete_campaign(d, campaign_id) ==
    IF campaign_id \notin DOMAIN d.campaigns
    THEN HTTPException(d, 404, "Campaign not found")
    ELSE commit(d, [d EXCEPT !.campaigns = Remove(@, {campaign_id})])

\* ------------------------------------------------------------------- auth.py
SECRET_KEY == "SECRET_KEY"
ACCESS_TOKEN_EXPIRE_MINUTES == 30

\* pwd_context.hash / pwd_context.verify, CryptContext(schemes=["bcrypt"]).
\* A password is [first72, rest]: its first 72 bytes and the bytes after
\* them.  bcrypt keys on the first 72 bytes and passlib drops the rest
\* silently, so the digest is made from first72 alone; the hash is a value of
\* another shape than the plaintext.  The salt is left out.
get_password_hash(password) == [scheme |-> "bcrypt", digest |-> password.first72]

verify_password(plain_password, hashed_password) ==
    hashed_password = get_password_hash(plain_password)

\* A token is [sub, exp, key]: the claims and the secret that signed them.
\* Time is counted in minutes.
\* `if expires_delta:` is false for a zero timedelta as it is for None, and the
\* default lifetime is used then.
create_access_token(sub, expires_delta, t) ==
    LET expire == IF expires_delta # 0 THEN t + expires_delta
                  ELSE t + ACCESS_TOKEN_EXPIRE_MINUTES
    IN [sub |-> sub, exp |-> expire, key |-> SECRET_KEY]

\* The Authorization header a request may carry: nothing, or a token.
NoToken == [sub |-> None, exp |-> 0, key |-> None]

verify_token_early(token, t) ==
    IF token.key # SECRET_KEY \/ token.exp <= t + TickMinutes THEN None
    ELSE token.sub

verify_token_unexpiring(token, t) ==
    IF token.key # SECRET_KEY THEN None ELSE token.sub

verify_token_unsigned(token, t) ==
    IF token.exp < t THEN None ELSE token.sub

\* jwt.decode: JWTError on a bad signature or when exp < now; then the sub
\* claim, or None when it is missing.
verify_token(token, t) ==
    IF token.key # SECRET_KEY \/ token.exp < t THEN None
    ELSE token.sub

Unauthorized == [status |-> 401, detail |-> "Invalid token"]

get_current_user_trusting(token, us, t) ==
    IF token = NoToken THEN [status |-> 401, detail |-> "Not authenticated"]
    ELSE LET username == verify_token(token, t)
         IN IF username = None THEN Unauthorized
            ELSE [status |-> 200, detail |-> username]

get_current_user_telling(token, us, t) ==
    IF token = NoToken THEN [status |-> 401, detail |-> "Not authenticated"]
    ELSE LET username == verify_token(token, t)
         IN IF username = None THEN Unauthorized
            ELSE IF \A u \in DOMAIN us : us[u].username # username
            THEN [status |-> 401, detail |-> "User not found"]
            ELSE [status |-> 200, detail |-> username]

\* A request without a bearer header is refused by oauth2_scheme before the
\* body of get_current_user runs.
get_current_user(token, us, t) ==
    IF token = NoToken THEN [status |-> 401, detail |-> "Not authenticated"]
    ELSE LET username == verify_token(token, t)
         IN IF username = None THEN Unauthorized
            ELSE IF \A u \in DOMAIN us : us[u].username # username THEN Unauthorized
            ELSE [status |-> 200, detail |-> username]

\* ---------------------------------------------------------------- User CRUD
UniqueUsername(us) == UniqueOn(us, "username")

create_user(us, user) ==
    LET id == NextId(us)
        cand == Insert(us, id, [username |-> user.username,
                                password |-> get_password_hash(user.password)])
    IN IF engine_enforces_constraints => UniqueUsername(cand)
       THEN [users |-> cand, status |-> 200, detail |-> "OK"]
       ELSE [users |-> us, status |-> 500, detail |-> "IntegrityError"]

\* The User row, or None.
authenticate_user(us, username, password) ==
    LET found == {u \in DOMAIN us : us[u].username = username}
    IN IF found = {} THEN None
       ELSE LET u == CHOOSE x \in found : TRUE
            IN IF ~verify_password(password, us[u].password) THEN None
               ELSE us[u].username

create_user_token_brief(username, t) ==
    create_access_token(username, TickMinutes, t)

create_user_token(username, t) ==
    create_access_token(username, ACCESS_TOKEN_EXPIRE_MINUTES, t)

\* ------------------------------------------------------------ request bodies
CountryBodies ==
    {[countryCode |-> "US", name |-> "United States"],
     [countryCode |-> "IN", name |-> "India"]}
OperatorNames == {"Op1"}
AdvertiserEmails == {"adv@example.com"}
PublisherNames == {"Pub1"}
CampaignNames == {"Camp1", "Camp2"}

\* Requests whose references name rows of the store.
OperatorBodies(d) == [name : OperatorNames, country_id : DOMAIN d.countries]
AdvertiserBodies(d) ==
    [email : AdvertiserEmails, operator_id : DOMAIN d.operators,
     country_id : DOMAIN d.countries]
PublisherBodies == [name : PublisherNames]
\* The plain campaign request: no fallback, no redirection advertiser.  It
\* names the oldest country: no delete guard reads Campaign.country_id.
CampaignBodies(d) ==
    [name : CampaignNames, publisher_id : DOMAIN d.publishers,
     country_id : Oldest(d.countries), operator_id : DOMAIN d.operators,
     advertiser_id : DOMAIN d.advertisers,
     fallbackEnabled : {FALSE}, redirection_advertiser_id : {NULL}]

\* Requests whose references may also name no row.
AnyOperatorBodies(d) == [name : OperatorNames, country_id : Refs(d.countries)]
AnyAdvertiserBodies(d) ==
    [email : AdvertiserEmails, operator_id : Refs(d.operators),
     country_id : Refs(d.countries)]
\* Every campaign request: with or without fallback, with or without a
\* redirection advertiser, which may or may not exist.
AnyCampaignBodies(d) ==
    [name : CampaignNames, publisher_id : Refs(d.publishers),
     country_id : Refs(d.countries), operator_id : Refs(d.operators),
     advertiser_id : Refs(d.advertisers), fallbackEnabled : BOOLEAN,
     redirection_advertiser_id : {NULL} \cup Refs(d.advertisers)]

\* ------------------------------------------------------------------- main.py
\* How many rows of `d` are gone from `e`.
RowsDeleted(d, e) ==
    Cardinality((DOMAIN d.countries) \ DOMAIN e.countries)
    + Cardinality((DOMAIN d.operators) \ DOMAIN e.operators)
    + Cardinality((DOMAIN d.advertisers) \ DOMAIN e.advertisers)
    + Cardinality((DOMAIN d.publishers) \ DOMAIN e.publishers)
    + Cardinality((DOMAIN d.campaigns) \ DOMAIN e.campaigns)

\* The response of endpoint `op` to a request carrying `tok`; the session is
\* closed by get_db, which leaves exactly what was committed.
Respond(op, tok, out) ==
    /\ db' = out.db
    /\ last' = [op |-> op, status |-> out.status, detail |-> out.detail, tok |-> tok,
                deleted |-> RowsDeleted(db, out.db)]
    /\ UNCHANGED <<users, tokens, now, tx, inflight>>

\* except IntegrityError: db.rollback(); raise HTTPException(400, detail)
except_IntegrityError(out, detail) ==
    IF out.status = 500 /\ out.detail = "IntegrityError"
    THEN [out EXCEPT !.status = 400, !.detail = detail]
    ELSE out

add_country(tok, country) ==
    /\ NextId(db.countries) <= MaxCountries
    /\ Respond("add_country", tok, create_country(db, country))

\* A body that lacks a field its schema requires is refused by the request
\* validation before the handler runs.
RequestValidationError(d) == HTTPException(d, 422, "field required")

\* PUT /countries/{id}/ takes schemas.CountryCreate: every field is required.
edit_country(tok, country_id, country) ==
    Respond("edit_country", tok,
            IF DOMAIN country # {"countryCode", "name"} THEN RequestValidationError(db)
            ELSE update_country(db, country_id, country))

remove_country(tok, country_id) ==
    Respond("remove_country", tok,
            except_IntegrityError(delete_country(db, country_id),
                "Cannot delete country with linked operators, advertisers, or campaigns"))

add_operator(tok, operator) ==
    /\ NextId(db.operators) <= MaxOperators
    /\ Respond("add_operator", tok, create_operator(db, operator))

edit_operator(tok, operator_id, operator) ==
    Respond("edit_operator", tok, update_operator(db, operator_id, operator))

remove_operator(tok, operator_id) ==
    Respond("remove_operator", tok,
            except_IntegrityError(delete_operator(db, operator_id),
                "Cannot delete operator with linked advertisers or campaigns"))

add_advertiser(tok, advertiser) ==
    /\ NextId(db.advertisers) <= MaxAdvertisers
    /\ Respond("add_advertiser", tok, create_advertiser(db, advertiser))

update_advertiser_details(tok, advertiser_id, advertiser) ==
    Respond("update_advertiser_details", tok, update_advertiser(db, advertiser_id, advertiser))

remove_advertiser(tok, advertiser_id) ==
    Respond("remove_advertiser", tok,
            except_IntegrityError(delete_advertiser(db, advertiser_id),
                "Cannot delete advertiser with linked campaigns"))

add_publisher(tok, publisher) ==
    /\ NextId(db.publishers) <= MaxPublishers
    /\ Respond("add_publisher", tok, create_publisher(db, publisher))

\* PUT /publishers/{id}/ takes schemas.PublisherUpdate, which is PublisherBase:
\* every field is required.
edit_publisher(tok, publisher_id, publisher) ==
    Respond("edit_publisher", tok,
            IF DOMAIN publisher # {"name"} THEN RequestValidationError(db)
            ELSE update_publisher(db, publisher_id, publisher))

remove_publisher(tok, publisher_id) ==
    Respond("remove_publisher", tok,
            except_IntegrityError(delete_publisher(db, publisher_id),
                "Cannot delete publisher with linked campaigns"))

add_campaign(tok, body) ==
    /\ NextId(db.campaigns) <= MaxCampaigns
    /\ Respond("add_campaign", tok, create_campaign(db, CampaignCreate(body)))

\* `if campaign.<ref> and not db.query(...).first()`: a supplied, non-zero
\* reference is looked up.  The country lookup queries `Country`, which in
\* main.py is the pydantic schema (line 6 rebinds the name), not the mapped
\* class: db.query raises and the request ends with an unhandled exception.
update_campaign_by_id_checks(d, campaign_id, campaign) ==
    LET given(f) == f \in DOMAIN campaign /\ campaign[f] # 0
    IN  IF given("publisher_id") /\ campaign.publisher_id \notin DOMAIN d.publishers
        THEN HTTPException(d, 404, "Publisher not found")
        ELSE IF given("country_id")
        THEN Unhandled(d, "ArgumentError")
        ELSE IF given("operator_id") /\ campaign.operator_id \notin DOMAIN d.operators
        THEN HTTPException(d, 404, "Operator not found")
        ELSE IF given("advertiser_id") /\ campaign.advertiser_id \notin DOMAIN d.advertisers
        THEN HTTPException(d, 404, "Advertiser not found")
        ELSE update_campaign(d, campaign_id, campaign)

update_campaign_by_id(tok, campaign_id, campaign) ==
    Respond("update_campaign_by_id", tok, update_campaign_by_id_checks(db, campaign_id, campaign))

delete_campaign_by_id(tok, campaign_id) ==
    Respond("delete_campaign_by_id", tok,
            except_IntegrityError(delete_campaign(db, campaign_id),
                "Cannot delete campaign with linked records"))

\* --------------------------------------------------------------- the system
EmptyDb ==
    [countries |-> EmptyTable, operators |-> EmptyTable, advertisers |-> EmptyTable,
     publishers |-> EmptyTable, campaigns |-> EmptyTable]

Idle == [pc |-> "idle", publisher_id |-> NULL, deleted |-> {}]

\* The sessions that can be open at once, and a session with no request.
Sessions == {"s1", "s2"}
NoRequest == [op |-> "none"]

Init ==
    /\ db = EmptyDb
    /\ users = EmptyTable
    /\ tokens = {}
    /\ now = 0
    /\ last = [op |-> "startup", status |-> 200, detail |-> "OK", tok |-> NoToken, deleted |-> 0]
    /\ tx = Idle
    /\ inflight = [s \in Sessions |-> NoRequest]

\* Provisioning and deletion of the entity graph, by requests that name
\* rows of the store; SpecProvision and SpecGate add the requests that do not.
Next ==
    \/ \E country \in CountryBodies : add_country(NoToken, country)
    \/ \E id \in DOMAIN db.countries : remove_country(NoToken, id)
    \/ \E operator \in OperatorBodies(db) : add_operator(NoToken, operator)
    \/ \E id \in DOMAIN db.operators : remove_operator(NoToken, id)
    \/ \E advertiser \in AdvertiserBodies(db) : add_advertiser(NoToken, advertiser)
    \/ \E id \in DOMAIN db.advertisers : remove_advertiser(NoToken, id)
    \/ \E publisher \in PublisherBodies : add_publisher(NoToken, publisher)
    \/ \E id \in DOMAIN db.publishers : remove_publisher(NoToken, id)
    \/ \E body \in CampaignBodies(db) : add_campaign(NoToken, body)
    \/ \E id \in DOMAIN db.campaigns : delete_campaign_by_id(NoToken, id)

Spec == Init /\ [][Next]_vars

\* ------------------------------------------------- campaign provisioning
\* Provisioning by any request, well-formed or not.
NextProvision ==
    \/ \E country \in CountryBodies : add_country(NoToken, country)
    \/ \E operator \in AnyOperatorBodies(db) : add_operator(NoToken, operator)
    \/ \E advertiser \in AnyAdvertiserBodies(db) : add_advertiser(NoToken, advertiser)
    \/ \E publisher \in PublisherBodies : add_publisher(NoToken, publisher)
    \/ \E body \in AnyCampaignBodies(db) : add_campaign(NoToken, body)
    \/ \E id \in Refs(db.campaigns) : delete_campaign_by_id(NoToken, id)

SpecProvision == Init /\ [][NextProvision]_vars

\* ---------------------------------------------------------- users and tokens
Usernames == {"ann@example.com"}
Passwords == [first72 : {"pw1", "pw2"}, rest : {"", "tail"}]
UserBodies == [username : Usernames, password : Passwords]

register_user(user) ==
    /\ NextId(users) <= MaxUsers
    /\ LET out == create_user(users, user)
       IN /\ users' = out.users
          /\ last' = [op |-> "register_user", status |-> out.status, detail |-> out.detail,
                      tok |-> NoToken, deleted |-> 0]
    /\ UNCHANGED <<db, tokens, now, tx, inflight>>

login_user(username, password) ==
    /\ Cardinality(tokens) < MaxTokens
    /\ LET db_user == authenticate_user(users, username, password)
       IN IF db_user = None
          THEN /\ last' = [op |-> "login_user", status |-> 400,
                           detail |-> "Invalid username or password",
                           tok |-> NoToken, deleted |-> 0]
               /\ UNCHANGED tokens
          ELSE /\ tokens' = tokens \cup {create_user_token(db_user, now)}
               /\ last' = [op |-> "login_user", status |-> 200, detail |-> "OK",
                           tok |-> NoToken, deleted |-> 0]
    /\ UNCHANGED <<db, users, now, tx, inflight>>

\* The clock moves on.
Tick ==
    /\ now + TickMinutes <= MaxTime
    /\ now' = now + TickMinutes
    /\ UNCHANGED <<db, users, tokens, last, tx, inflight>>

\* What a client can put in the Authorization header: nothing, a token the
\* system issued, or one it signed itself with another secret.
ForgedTokens == [sub : Usernames, exp : {MaxTime}, key : {"other"}]
RequestTokens == {NoToken} \cup tokens \cup ForgedTokens

\* Registration, login, the clock, and requests that carry a token.
NextGate ==
    \/ \E user \in UserBodies : register_user(user)
    \/ \E username \in Usernames, password \in Passwords : login_user(username, password)
    \/ Tick
    \/ \E tok \in RequestTokens, country \in CountryBodies : add_country(tok, country)
    \/ \E tok \in RequestTokens, id \in Refs(db.countries) : remove_country(tok, id)
    \/ \E tok \in RequestTokens, publisher \in PublisherBodies : add_publisher(tok, publisher)
    \/ \E tok \in RequestTokens, id \in Refs(db.publishers) : remove_publisher(tok, id)

SpecGate == Init /\ [][NextGate]_vars

\* ------------------------------------------- remove_publisher, step by step
\* The session of one remove_publisher request, statement by statement, while
\* other requests run in sessions of their own.  tx.pc is the statement the
\* request has reached, tx.deleted the campaign rows its bulk DELETE removed
\* inside the transaction that is still open.

\* db.query(Publisher).filter(Publisher.id == publisher_id).first()
delete_publisher_query(publisher_id) ==
    /\ tx.pc = "idle"
    /\ IF publisher_id \notin DOMAIN db.publishers
       THEN Respond("remove_publisher", NoToken, HTTPException(db, 404, "Publisher not found"))
       ELSE /\ tx' = [pc |-> "found", publisher_id |-> publisher_id, deleted |-> {}]
            /\ UNCHANGED <<db, users, tokens, now, last, inflight>>

\* db.query(Campaign).filter(Campaign.publisher_id == db_publisher.id).delete()
delete_publisher_bulk_delete ==
    /\ tx.pc = "found"
    /\ tx' = [tx EXCEPT !.pc = "campaigns_deleted",
                        !.deleted = publisher_campaigns(db, tx.publisher_id)]
    /\ db' = bulk_delete_in_transaction(db, tx.publisher_id)
    /\ UNCHANGED <<users, tokens, now, last, inflight>>

\* db.delete(db_publisher); db.commit(): the publisher's DELETE is flushed and
\* the transaction commits, or the flush raises IntegrityError, which
\* remove_publisher answers with db.rollback() and 400.
delete_publisher_commit ==
    /\ tx.pc = "campaigns_deleted"
    /\ LET cand == [db EXCEPT !.campaigns = Remove(@, tx.deleted),
                              !.publishers = Remove(@, {tx.publisher_id})]
           out == except_IntegrityError(commit(db, cand),
                      "Cannot delete publisher with linked campaigns")
       IN /\ db' = out.db
          /\ last' = [op |-> "remove_publisher", status |-> out.status,
                      detail |-> out.detail, tok |-> NoToken,
                      deleted |-> RowsDeleted(db, out.db)]
    /\ tx' = Idle
    /\ UNCHANGED <<users, tokens, now, inflight>>

\* An exception other than IntegrityError before the commit: no handler
\* catches it, get_db's finally closes the session, and the open transaction
\* is rolled back.  The response's detail is the statement that was reached.
delete_publisher_fails ==
    /\ tx.pc \in {"found", "campaigns_deleted"}
    /\ db' = Unhandled(db, tx.pc).db
    /\ last' = [op |-> "remove_publisher", status |-> 500, detail |-> tx.pc,
                tok |-> NoToken, deleted |-> 0]
    /\ tx' = Idle
    /\ UNCHANGED <<users, tokens, now, inflight>>

\* The requests that run beside the remove_publisher request refer to the
\* oldest rows.
TxCampaignBodies(d) ==
    [name : CampaignNames, publisher_id : DOMAIN d.publishers,
     country_id : Oldest(d.countries), operator_id : Oldest(d.operators),
     advertiser_id : Oldest(d.advertisers),
     fallbackEnabled : {FALSE}, redirection_advertiser_id : {NULL}]

NextTx ==
    \/ \E country \in CountryBodies : add_country(NoToken, country)
    \/ \E operator \in [name : OperatorNames, country_id : Oldest(db.countries)] :
          add_operator(NoToken, operator)
    \/ \E advertiser \in [email : AdvertiserEmails, operator_id : Oldest(db.operators),
                          country_id : Oldest(db.countries)] :
          add_advertiser(NoToken, advertiser)
    \/ \E publisher \in PublisherBodies : add_publisher(NoToken, publisher)
    \/ \E body \in TxCampaignBodies(db) : add_campaign(NoToken, body)
    \/ \E id \in DOMAIN db.campaigns : delete_campaign_by_id(NoToken, id)
    \/ \E id \in Refs(db.publishers) : delete_publisher_query(id)
    \/ delete_publisher_bulk_delete
    \/ delete_publisher_commit
    \/ delete_publisher_fails

SpecTx == Init /\ [][NextTx]_vars

\* --------------------------------------------- requests that run side by side
\* A crud function reads, then writes and commits; between the two another
\* session can commit.  inflight[s] is the request session s has read for and
\* not yet committed.

\* The rows that reference a parent through a column.
Children(t, col, id) == {i \in DOMAIN t : t[i][col] = id}
NullifyRows(t, col, ids) ==
    [i \in DOMAIN t |-> IF i \in ids THEN [t[i] EXCEPT ![col] = NULL] ELSE t[i]]

\* The collections Country.operators, Country.advertisers, Country.campaigns
\* as a SELECT of them returns them from the store d.
country_children(d, country_id) ==
    [operators |-> Children(d.operators, "country_id", country_id),
     advertisers |-> Children(d.advertisers, "country_id", country_id),
     campaigns |-> Children(d.campaigns, "country_id", country_id)]

\* Operator.advertisers and Operator.campaigns.
operator_children(d, operator_id) ==
    [advertisers |-> Children(d.advertisers, "operator_id", operator_id),
     campaigns |-> Children(d.campaigns, "operator_id", operator_id)]

\* db.delete(country) flushed with the collections the session loaded.
flush_delete_country(d, country_id, loaded) ==
    [d EXCEPT !.countries = Remove(@, {country_id}),
              !.operators = NullifyRows(@, "country_id", loaded.operators),
              !.advertisers = NullifyRows(@, "country_id", loaded.advertisers),
              !.campaigns = NullifyRows(@, "country_id", loaded.campaigns)]

\* db.delete(db_operator) flushed with the collections the session loaded.
flush_delete_operator(d, operator_id, loaded) ==
    [d EXCEPT !.operators = Remove(@, {operator_id}),
              !.advertisers = NullifyRows(@, "operator_id", loaded.advertisers),
              !.campaigns = NullifyRows(@, "operator_id", loaded.campaigns)]

\* How many sessions hold a request of a kind.
Holding(op) == Cardinality({s \in Sessions : inflight[s].op = op})

\* The session has read and goes on to write.
Proceed(s, request) ==
    /\ inflight' = [inflight EXCEPT ![s] = request]
    /\ UNCHANGED <<db, users, tokens, now, last, tx>>

\* The session's request ends with an answer; get_db closes the session.
Finish(s, op, out) ==
    /\ db' = out.db
    /\ last' = [op |-> op, status |-> out.status, detail |-> out.detail, tok |-> NoToken,
                deleted |-> RowsDeleted(db, out.db)]
    /\ inflight' = [inflight EXCEPT ![s] = NoRequest]
    /\ UNCHANGED <<users, tokens, now, tx>>

\* create_campaign up to its last lookup.
create_campaign_validate(s, body) ==
    /\ inflight[s] = NoRequest
    /\ NextId(db.campaigns) + Holding("create_campaign") <= MaxCampaigns
    /\ LET found == campaign_references(db, CampaignCreate(body))
       IN IF found.status # 200 THEN Finish(s, "add_campaign", found)
          ELSE Proceed(s, [op |-> "create_campaign", body |-> CampaignCreate(body)])

\* create_campaign from Campaign(...) on.
create_campaign_commit(s) ==
    /\ inflight[s].op = "create_campaign"
    /\ Finish(s, "add_campaign", insert_campaign(db, inflight[s].body))

\* create_operator up to its lookup.
create_operator_validate(s, operator) ==
    /\ inflight[s] = NoRequest
    /\ NextId(db.operators) + Holding("create_operator") <= MaxOperators
    /\ LET found == operator_country(db, operator)
       IN IF found.status # 200 THEN Finish(s, "add_operator", found)
          ELSE Proceed(s, [op |-> "create_operator", body |-> operator])

\* create_operator from Operator(...) on.
create_operator_commit(s) ==
    /\ inflight[s].op = "create_operator"
    /\ Finish(s, "add_operator", insert_operator(db, inflight[s].body))

\* delete_country up to its scan.  The session's transaction has read the
\* store as it is now.
delete_country_scan(s, country_id) ==
    /\ inflight[s] = NoRequest
    /\ LET guard == country_guard(db, country_id)
       IN IF guard.status # 200 THEN Finish(s, "remove_country", guard)
          ELSE Proceed(s, [op |-> "delete_country", id |-> country_id,
                           loaded |-> country_children(db, country_id)])

\* db.delete(country); db.commit(), and remove_country's except clause.  The
\* flush loads the country's collections with a SELECT: under an isolation
\* level that reads a snapshot it returns the rows of the transaction's first
\* read, under one that reads what is committed it returns the rows of now.
delete_country_commit(s) ==
    /\ inflight[s].op = "delete_country"
    /\ \E loaded \in {inflight[s].loaded, country_children(db, inflight[s].id)} :
          Finish(s, "remove_country",
                 except_IntegrityError(
                     commit(db, flush_delete_country(db, inflight[s].id, loaded)),
                     "Cannot delete country with linked operators, advertisers, or campaigns"))

\* delete_operator up to its second scan.
delete_operator_scan(s, operator_id) ==
    /\ inflight[s] = NoRequest
    /\ LET guard == operator_guard(db, operator_id)
       IN IF guard.status # 200 THEN Finish(s, "remove_operator", guard)
          ELSE Proceed(s, [op |-> "delete_operator", id |-> operator_id,
                           loaded |-> operator_children(db, operator_id)])

\* db.delete(db_operator); db.commit(), and remove_operator's except clause.
delete_operator_commit(s) ==
    /\ inflight[s].op = "delete_operator"
    /\ \E loaded \in {inflight[s].loaded, operator_children(db, inflight[s].id)} :
          Finish(s, "remove_operator",
                 except_IntegrityError(
                     commit(db, flush_delete_operator(db, inflight[s].id, loaded)),
                     "Cannot delete operator with linked advertisers or campaigns"))

\* delete_advertiser up to its lookup.
delete_advertiser_query(s, advertiser_id) ==
    /\ inflight[s] = NoRequest
    /\ IF advertiser_id \notin DOMAIN db.advertisers
       THEN Finish(s, "remove_advertiser", HTTPException(db, 404, "Advertiser not found"))
       ELSE Proceed(s, [op |-> "delete_advertiser", id |-> advertiser_id])

\* db.delete(db_advertiser); db.commit(), and remove_advertiser's except
\* clause.
delete_advertiser_commit(s) ==
    /\ inflight[s].op = "delete_advertiser"
    /\ Finish(s, "remove_advertiser",
              except_IntegrityError(
                  commit(db, [db EXCEPT !.advertisers = Remove(@, {inflight[s].id})]),
                  "Cannot delete advertiser with linked campaigns"))

\* Requests that refer to the oldest rows.
OldestOperatorBodies(d) == [name : OperatorNames, country_id : Oldest(d.countries)]
OldestAdvertiserBodies(d) ==
    [email : AdvertiserEmails, operator_id : Oldest(d.operators),
     country_id : Oldest(d.countries)]

\* Creates that race: the graph is provisioned, and campaign requests run in
\* two sessions side by side.  create_country and the other creates read
\* nothing before their commit, so they are single steps.
NextRace ==
    \/ \E country \in CountryBodies : add_country(NoToken, country)
    \/ \E operator \in OldestOperatorBodies(db) : add_operator(NoToken, operator)
    \/ \E advertiser \in OldestAdvertiserBodies(db) : add_advertiser(NoToken, advertiser)
    \/ \E publisher \in PublisherBodies : add_publisher(NoToken, publisher)
    \/ \E s \in Sessions, body \in TxCampaignBodies(db) : create_campaign_validate(s, body)
    \/ \E s \in Sessions : create_campaign_commit(s)
    \/ \E id \in DOMAIN db.campaigns : delete_campaign_by_id(NoToken, id)

SpecRace == Init /\ [][NextRace]_vars

\* Deletes that race with creates of their dependents: the deletes run in one
\* session and the creates in the other.
Deleter == "s1"
Creator == "s2"

NextGuardRace ==
    \/ \E country \in {c \in CountryBodies : c.countryCode = "US"} : add_country(NoToken, country)
    \/ \E advertiser \in OldestAdvertiserBodies(db) : add_advertiser(NoToken, advertiser)
    \/ \E publisher \in PublisherBodies : add_publisher(NoToken, publisher)
    \/ \E operator \in OldestOperatorBodies(db) : create_operator_validate(Creator, operator)
    \/ create_operator_commit(Creator)
    \/ \E body \in TxCampaignBodies(db) : create_campaign_validate(Creator, body)
    \/ create_campaign_commit(Creator)
    \/ \E id \in DOMAIN db.countries : delete_country_scan(Deleter, id)
    \/ delete_country_commit(Deleter)
    \/ \E id \in DOMAIN db.operators : delete_operator_scan(Deleter, id)
    \/ delete_operator_commit(Deleter)
    \/ \E id \in DOMAIN db.advertisers : delete_advertiser_query(Deleter, id)
    \/ delete_advertiser_commit(Deleter)

SpecGuardRace == Init /\ [][NextGuardRace]_vars

\* ------------------------------------------------------------------ updates
\* A patch is the function from the fields a PUT body supplies with a value
\* other than None to those values.
NoFields == [f \in {} |-> NULL]

\* The ids a request names: the oldest row's, and one that names no row.
OldestOrMissing(t) == Oldest(t) \cup {Missing(t)}

CountryPatches == CountryBodies \cup {[name |-> "India"]}
OperatorPatches(d) ==
    {NoFields, [name |-> "Op2"]}
    \cup [country_id : OldestOrMissing(d.countries)]
    \cup [name : {"Op2"}, country_id : OldestOrMissing(d.countries)]
AdvertiserPatches(d) ==
    {NoFields, [email |-> "adv2@example.com"]}
    \cup [operator_id : OldestOrMissing(d.operators)]
    \cup [country_id : OldestOrMissing(d.countries)]
PublisherPatches == {NoFields, [name |-> "Pub2"]}
CampaignPatches(d) ==
    {NoFields, [isLive |-> TRUE], [fallbackEnabled |-> TRUE]}
    \cup [name : CampaignNames]
    \cup [publisher_id : OldestOrMissing(d.publishers)]
    \cup [country_id : OldestOrMissing(d.countries)]
    \cup [operator_id : OldestOrMissing(d.operators)]
    \cup [advertiser_id : OldestOrMissing(d.advertisers)]
    \cup [publisher_id : {Missing(d.publishers)}, operator_id : {Missing(d.operators)}]
    \cup [operator_id : {Missing(d.operators)}, advertiser_id : {Missing(d.advertisers)}]

\* Provisioning, the PUT endpoints and registration, by requests that may
\* name rows that do not exist.  A PUT names the oldest row of its table or
\* no row.
NextUpdate ==
    \/ \E country \in CountryBodies : add_country(NoToken, country)
    \/ \E operator \in [name : OperatorNames, country_id : OldestOrMissing(db.countries)] :
          add_operator(NoToken, operator)
    \/ \E advertiser \in [email : AdvertiserEmails,
                          operator_id : OldestOrMissing(db.operators),
                          country_id : Oldest(db.countries)] :
          add_advertiser(NoToken, advertiser)
    \/ \E publisher \in PublisherBodies : add_publisher(NoToken, publisher)
    \/ \E body \in TxCampaignBodies(db) : add_campaign(NoToken, body)
    \/ \E id \in OldestOrMissing(db.countries), country \in CountryPatches :
          edit_country(NoToken, id, country)
    \/ \E id \in OldestOrMissing(db.operators), operator \in OperatorPatches(db) :
          edit_operator(NoToken, id, operator)
    \/ \E id \in OldestOrMissing(db.advertisers), advertiser \in AdvertiserPatches(db) :
          update_advertiser_details(NoToken, id, advertiser)
    \/ \E id \in OldestOrMissing(db.publishers), publisher \in PublisherPatches :
          edit_publisher(NoToken, id, publisher)
    \/ \E id \in OldestOrMissing(db.campaigns), campaign \in CampaignPatches(db) :
          update_campaign_by_id(NoToken, id, campaign)
    \/ \E user \in {u \in UserBodies : u.password = [first72 |-> "pw1", rest |-> ""]} :
          register_user(user)

SpecUpdate == Init /\ [][NextUpdate]_vars

\* The PUT endpoints over a store that holds one country, one operator, one
\* advertiser, one publisher and the campaigns between them.
NextPatch ==
    \/ \E country \in CountryBodies :
          db.countries = EmptyTable /\ add_country(NoToken, country)
    \/ \E operator \in OldestOperatorBodies(db) :
          db.operators = EmptyTable /\ add_operator(NoToken, operator)
    \/ \E advertiser \in OldestAdvertiserBodies(db) :
          db.advertisers = EmptyTable /\ add_advertiser(NoToken, advertiser)
    \/ \E publisher \in PublisherBodies :
          db.publishers = EmptyTable /\ add_publisher(NoToken, publisher)
    \/ \E body \in TxCampaignBodies(db) : add_campaign(NoToken, body)
    \/ \E id \in OldestOrMissing(db.countries), country \in CountryPatches :
          edit_country(NoToken, id, country)
    \/ \E id \in OldestOrMissing(db.operators), operator \in OperatorPatches(db) :
          edit_operator(NoToken, id, operator)
    \/ \E id \in OldestOrMissing(db.advertisers), advertiser \in AdvertiserPatches(db) :
          update_advertiser_details(NoToken, id, advertiser)
    \/ \E id \in OldestOrMissing(db.publishers), publisher \in PublisherPatches :
          edit_publisher(NoToken, id, publisher)
    \/ \E id \in OldestOrMissing(db.campaigns), campaign \in CampaignPatches(db) :
          update_campaign_by_id(NoToken, id, campaign)

SpecPatch == Init /\ [][NextPatch]_vars

\* Every kind of mutation, the DELETE endpoints included, over a store with
\* one country.
NextFaults ==
    \/ \E country \in {c \in CountryBodies : c.countryCode = "US"} : add_country(NoToken, country)
    \/ \E operator \in [name : OperatorNames, country_id : OldestOrMissing(db.countries)] :
          add_operator(NoToken, operator)
    \/ \E advertiser \in [email : AdvertiserEmails,
                          operator_id : OldestOrMissing(db.operators),
                          country_id : OldestOrMissing(db.countries)] :
          add_advertiser(NoToken, advertiser)
    \/ \E publisher \in PublisherBodies : add_publisher(NoToken, publisher)
    \/ \E body \in TxCampaignBodies(db) : add_campaign(NoToken, body)
    \/ \E id \in OldestOrMissing(db.countries), country \in CountryPatches :
          edit_country(NoToken, id, country)
    \/ \E id \in OldestOrMissing(db.operators),
          operator \in [country_id : OldestOrMissing(db.countries)] :
          edit_operator(NoToken, id, operator)
    \/ \E id \in OldestOrMissing(db.advertisers),
          advertiser \in [operator_id : OldestOrMissing(db.operators)] :
          update_advertiser_details(NoToken, id, advertiser)
    \/ \E id \in OldestOrMissing(db.publishers), publisher \in PublisherPatches :
          edit_publisher(NoToken, id, publisher)
    \/ \E id \in OldestOrMissing(db.campaigns),
          campaign \in [name : CampaignNames] \cup [country_id : Oldest(db.countries)]
                       \cup [advertiser_id : {Missing(db.advertisers)}] :
          update_campaign_by_id(NoToken, id, campaign)
    \/ \E id \in Refs(db.countries) : remove_country(NoToken, id)
    \/ \E id \in Refs(db.operators) : remove_operator(NoToken, id)
    \/ \E id \in Refs(db.advertisers) : remove_advertiser(NoToken, id)
    \/ \E id \in Refs(db.publishers) : remove_publisher(NoToken, id)
    \/ \E id \in Refs(db.campaigns) : delete_campaign_by_id(NoToken, id)
    \/ \E user \in {u \in UserBodies : u.password = [first72 |-> "pw1", rest |-> ""]} :
          register_user(user)

SpecFaults == Init /\ [][NextFaults]_vars

\* =================================================================== claims
\* C1: in every reachable state every foreign key held by a stored row names
\* a row that currently exists (Operator.country_id; Advertiser.operator_id
\* and country_id; Campaign.publisher_id, country_id, operator_id,
\* advertiser_id and, when set, redirection_advertiser_id).
C1_EveryForeignKeyNamesARow ==
    /\ \A o \in DOMAIN db.operators : db.operators[o].country_id \in DOMAIN db.countries
    /\ \A a \in DOMAIN db.advertisers :
        /\ db.advertisers[a].operator_id \in DOMAIN db.operators
        /\ db.advertisers[a].country_id \in DOMAIN db.countries
    /\ \A k \in DOMAIN db.campaigns :
        /\ db.campaigns[k].publisher_id \in DOMAIN db.publishers
        /\ db.campaigns[k].country_id \in DOMAIN db.countries
        /\ db.campaigns[k].operator_id \in DOMAIN db.operators
        /\ db.campaigns[k].advertiser_id \in DOMAIN db.advertisers
        /\ (db.campaigns[k].redirection_advertiser_id # NULL
               => db.campaigns[k].redirection_advertiser_id \in DOMAIN db.advertisers)

\* C3: deleting an existing Country that some Operator references answers
\* Conflict (400), and the Country and every Operator stay in the store.
C3_DeleteCountryBlockedByOperators ==
    [][\A id \in DOMAIN db.countries :
          (/\ remove_country(NoToken, id)
           /\ \E o \in DOMAIN db.operators : db.operators[o].country_id = id)
          => (/\ last'.status = 400
              /\ id \in DOMAIN db'.countries
              /\ db'.countries = db.countries
              /\ db'.operators = db.operators)]_vars

C3_Witness ==
    /\ last.op = "remove_country"
    /\ last.status = 400
    /\ \E o \in DOMAIN db.operators : db.operators[o].country_id \in DOMAIN db.countries

\* C4: deleting an existing Operator that an Advertiser or a Campaign
\* references answers Conflict (400), and the Operator, the Advertisers and
\* the Campaigns stay in the store.
C4_DeleteOperatorBlockedByDependents ==
    [][\A id \in DOMAIN db.operators :
          (/\ remove_operator(NoToken, id)
           /\ \/ \E a \in DOMAIN db.advertisers : db.advertisers[a].operator_id = id
              \/ \E k \in DOMAIN db.campaigns : db.campaigns[k].operator_id = id)
          => (/\ last'.status = 400
              /\ db'.operators = db.operators
              /\ db'.advertisers = db.advertisers
              /\ db'.campaigns = db.campaigns)]_vars

\* The Operator is referenced by a Campaign and by no Advertiser.
C4_Witness ==
    /\ last.op = "remove_operator"
    /\ last.status = 400
    /\ \E o \in DOMAIN db.operators :
        /\ \E k \in DOMAIN db.campaigns : db.campaigns[k].operator_id = o
        /\ \A a \in DOMAIN db.advertisers : db.advertisers[a].operator_id # o
        /\ \A p \in DOMAIN db.operators : p # o =>
              \A k \in DOMAIN db.campaigns : db.campaigns[k].operator_id # p

\* C5: deleting an existing Advertiser that a Campaign references, as its
\* advertiser or as its redirection advertiser, answers Conflict (400), and
\* the Advertiser and the Campaigns stay in the store.
C5_DeleteAdvertiserBlockedByCampaigns ==
    [][\A id \in DOMAIN db.advertisers :
          (/\ remove_advertiser(NoToken, id)
           /\ \E k \in DOMAIN db.campaigns :
                 \/ db.campaigns[k].advertiser_id = id
                 \/ db.campaigns[k].redirection_advertiser_id = id)
          => (/\ last'.status = 400
              /\ db'.advertisers = db.advertisers
              /\ db'.campaigns = db.campaigns)]_vars

C5_Witness ==
    /\ last.op = "remove_advertiser"
    /\ last.status = 400
    /\ last.detail = "Cannot delete advertiser with linked campaigns"
    /\ \E k \in DOMAIN db.campaigns : db.campaigns[k].advertiser_id \in DOMAIN db.advertisers

\* C6: deleting an existing Publisher succeeds whatever Campaigns it has, and
\* afterwards neither the Publisher nor any Campaign of it is in the store.
C6_DeletePublisherCascades ==
    [][\A id \in DOMAIN db.publishers :
          remove_publisher(NoToken, id)
          => (/\ last'.status = 200
              /\ id \notin DOMAIN db'.publishers
              /\ \A k \in DOMAIN db'.campaigns : db'.campaigns[k].publisher_id # id
              /\ last'.deleted = 1 + Cardinality({k \in DOMAIN db.campaigns :
                                                     db.campaigns[k].publisher_id = id}))]_vars

\* A Publisher went together with two Campaigns.
C6_Witness ==
    /\ last.op = "remove_publisher"
    /\ last.status = 200
    /\ last.deleted = 3

C7_PublisherCascadeAtomic ==
    [][tx' # tx =>
         LET p == IF tx.pc = "idle" THEN tx'.publisher_id ELSE tx.publisher_id
         IN /\ \/ db' = db
               \/ /\ last'.status = 200
                  /\ db'.publishers = Remove(db.publishers, {p})
                  /\ db'.campaigns = Remove(db.campaigns, publisher_campaigns(db, p))
                  /\ UNCHANGED <<db.countries, db.operators, db.advertisers>>
            /\ (tx.pc # "idle" /\ last'.status # 200)
                  => (p \in DOMAIN db'.publishers /\ db' = db)]_vars

\* A request failed after its bulk DELETE, and the Publisher still has its two
\* Campaigns.
C7_Witness ==
    /\ last.op = "remove_publisher"
    /\ last.status = 500
    /\ last.detail = "campaigns_deleted"
    /\ tx = Idle
    /\ \E p \in DOMAIN db.publishers : Cardinality(publisher_campaigns(db, p)) = 2

\* C2: a create, update or delete of the entity graph takes effect only when
\* the request carries a token that get_current_user resolves to a User.
C2_MutationNeedsIdentity ==
    [][db' # db => get_current_user(last'.tok, users, now).status = 200]_vars

\* C9: create_campaign answers NotFound for the first reference, in the order
\* publisher, country, operator, advertiser, redirection advertiser, that
\* names no row, and inserts no Campaign.
FirstUnresolved(d, body) ==
    IF body.publisher_id \notin DOMAIN d.publishers THEN "Publisher not found"
    ELSE IF body.country_id \notin DOMAIN d.countries THEN "Country not found"
    ELSE IF body.operator_id \notin DOMAIN d.operators THEN "Operator not found"
    ELSE IF body.advertiser_id \notin DOMAIN d.advertisers THEN "Advertiser not found"
    ELSE IF /\ body.fallbackEnabled
            /\ body.redirection_advertiser_id # NULL
            /\ body.redirection_advertiser_id \notin DOMAIN d.advertisers
         THEN "Redirection Advertiser not found"
    ELSE None

C9_FirstUnresolvedReferenceReported ==
    [][\A body \in AnyCampaignBodies(db) :
          (add_campaign(NoToken, body) /\ FirstUnresolved(db, body) # None)
          => (/\ last'.status = 404
              /\ last'.detail = FirstUnresolved(db, body)
              /\ db'.campaigns = db.campaigns)]_vars

\* C10: a campaign request with fallbackEnabled false and a redirection
\* advertiser id is refused and inserts nothing; when its mandatory references
\* resolve, the refusal is a ValidationError (422).
C10_RedirectionWithoutFallbackRefused ==
    [][\A body \in AnyCampaignBodies(db) :
          (/\ add_campaign(NoToken, body)
           /\ ~body.fallbackEnabled
           /\ body.redirection_advertiser_id # NULL)
          => (/\ last'.status # 200
              /\ db'.campaigns = db.campaigns
              /\ (FirstUnresolved(db, body) = None => last'.status = 422))]_vars

\* C11: a campaign request with fallbackEnabled true, whose mandatory
\* references resolve and whose name is free: with a redirection advertiser id
\* that names no Advertiser it answers NotFound (404) and inserts nothing; with
\* one that names an Advertiser it succeeds and the stored Campaign carries
\* the id; with none it succeeds and the stored reference is absent.
NameFree(d, body) == \A k \in DOMAIN d.campaigns : d.campaigns[k].name # body.name

C11_FallbackRedirectionResolved ==
    [][\A body \in AnyCampaignBodies(db) :
          (/\ add_campaign(NoToken, body)
           /\ body.fallbackEnabled
           /\ FirstUnresolved(db, [body EXCEPT !.redirection_advertiser_id = NULL]) = None
           /\ NameFree(db, body))
          => IF /\ body.redirection_advertiser_id # NULL
                /\ body.redirection_advertiser_id \notin DOMAIN db.advertisers
             THEN last'.status = 404 /\ db'.campaigns = db.campaigns
             ELSE /\ last'.status = 200
                  /\ NextId(db.campaigns) \in DOMAIN db'.campaigns
                  /\ db'.campaigns[NextId(db.campaigns)].redirection_advertiser_id
                        = body.redirection_advertiser_id]_vars

\* C12: a campaign request whose references all resolve succeeds when its
\* name is free, storing the Campaign as requested; when a stored Campaign has
\* the name it answers Conflict (400, "Campaign with this name already
\* exists") and the store, the first Campaign included, is exactly as it was.
C12_DuplicateCampaignNameConflict ==
    [][\A body \in CampaignBodies(db) :
          add_campaign(NoToken, body)
          => IF NameFree(db, body)
             THEN /\ last'.status = 200
                  /\ db' = [db EXCEPT !.campaigns =
                              Insert(@, NextId(db.campaigns),
                                     [name |-> body.name,
                                      publisher_id |-> body.publisher_id,
                                      country_id |-> body.country_id,
                                      operator_id |-> body.operator_id,
                                      advertiser_id |-> body.advertiser_id,
                                      fallbackEnabled |-> body.fallbackEnabled,
                                      redirection_advertiser_id |-> NULL])]
             ELSE /\ last'.status = 400
                  /\ last'.detail = "Campaign with this name already exists"
                  /\ db' = db]_vars

\* The second request was refused and the store holds the first Campaign only.
C12_Witness ==
    /\ last.op = "add_campaign"
    /\ last.status = 400
    /\ last.detail = "Campaign with this name already exists"
    /\ Cardinality(DOMAIN db.campaigns) = 1

\* C13: an insert whose unique field equals that of a stored row (Country
\* code or name, Publisher name, Advertiser email, Campaign name, User
\* username) is answered with the Conflict outcome, a handled 400 or 409, never
\* with an unhandled failure, and inserts nothing.
Taken(t, col, v) == \E i \in DOMAIN t : t[i][col] = v
Conflict == {400, 409}

C13_DuplicateInsertIsConflict ==
    [][/\ \A country \in CountryBodies :
            (/\ add_country(NoToken, country)
             /\ \/ Taken(db.countries, "countryCode", country.countryCode)
                \/ Taken(db.countries, "name", country.name))
            => (last'.status \in Conflict /\ db' = db)
       /\ \A publisher \in PublisherBodies :
            (add_publisher(NoToken, publisher) /\ Taken(db.publishers, "name", publisher.name))
            => (last'.status \in Conflict /\ db' = db)
       /\ \A advertiser \in AdvertiserBodies(db) :
            (add_advertiser(NoToken, advertiser) /\ Taken(db.advertisers, "email", advertiser.email))
            => (last'.status \in Conflict /\ db' = db)
       /\ \A body \in CampaignBodies(db) :
            (add_campaign(NoToken, body) /\ Taken(db.campaigns, "name", body.name))
            => (last'.status \in Conflict /\ db' = db)
       /\ \A user \in UserBodies :
            (register_user(user) /\ Taken(users, "username", user.username))
            => (last'.status \in Conflict /\ users' = users)]_vars

CampaignRaceLoser(s) ==
    /\ create_campaign_commit(s)
    /\ Taken(db.campaigns, "name", inflight[s].body.name)

C14_RaceLoserIsConflict ==
    [][/\ \A s \in Sessions :
            CampaignRaceLoser(s)
            => /\ last'.status \in Conflict
               /\ db' = db
               /\ Cardinality(Children(db'.campaigns, "name", inflight[s].body.name)) = 1
       /\ \A s \in Sessions :
            (/\ create_campaign_commit(s)
             /\ ~Taken(db.campaigns, "name", inflight[s].body.name))
            => /\ last'.status = 200
               /\ Cardinality(Children(db'.campaigns, "name", inflight[s].body.name)) = 1
       /\ \A country \in CountryBodies :
            (/\ add_country(NoToken, country)
             /\ Taken(db.countries, "countryCode", country.countryCode))
            => /\ last'.status \in Conflict
               /\ db' = db]_vars

\* ------------------------------------------------------- tokens and the gate
\* create_access_token called with a subject and a lifetime, get_current_user
\* called with a token, users registered, and the clock.

\* The subjects a token can carry: a registered username, one nobody has
\* registered, and no sub claim at all.
Subjects == Usernames \cup {"ghost@example.com", None}
\* The lifetimes asked for, in minutes.
Lifetimes == {0, TickMinutes}

\* create_access_token(data={"sub": sub}, expires_delta=timedelta(minutes=ttl))
issue_token(sub, ttl) ==
    /\ Cardinality(tokens) < MaxTokens
    /\ tokens' = tokens \cup {create_access_token(sub, ttl, now)}
    /\ last' = [op |-> "create_access_token", status |-> 200, detail |-> "OK",
                tok |-> create_access_token(sub, ttl, now), deleted |-> ttl]
    /\ UNCHANGED <<db, users, now, tx, inflight>>

\* get_current_user(token) as the dependency of a request.
authenticate(tok) ==
    /\ LET out == get_current_user(tok, users, now)
       IN last' = [op |-> "get_current_user", status |-> out.status, detail |-> out.detail,
                   tok |-> tok, deleted |-> 0]
    /\ UNCHANGED <<db, users, tokens, now, tx, inflight>>

NextToken ==
    \/ \E user \in UserBodies : register_user(user)
    \/ \E sub \in Subjects, ttl \in Lifetimes : issue_token(sub, ttl)
    \/ \E tok \in RequestTokens : authenticate(tok)
    \/ Tick

SpecToken == Init /\ [][NextToken]_vars

\* C16: a token issued with a lifetime of zero is rejected by verify_token at
\* the time of issue and at every later time.
C16_ZeroLifetimeTokenNeverAccepted ==
    [][\A sub \in Subjects \ {None} :
          issue_token(sub, 0)
          => \A t \in now..MaxTime :
                verify_token(create_access_token(sub, 0, now), t) = None]_vars

\* C17: a token signed with the process secret is accepted, with its subject,
\* exactly while now < exp, and rejected once now >= exp; a token signed with
\* another secret is rejected at every time.
C17_TokenLifecycle ==
    /\ \A tok \in tokens :
          tok.sub # None
          => verify_token(tok, now) = (IF now < tok.exp THEN tok.sub ELSE None)
    /\ \A tok \in ForgedTokens : verify_token(tok, now) = None

\* C18: a token signed with a secret other than the process secret is refused
\* whenever it is presented: verify_token returns no subject, and the request
\* is answered 401 rather than failing.
C18_ForeignSecretRejected ==
    [][\A tok \in ForgedTokens :
          authenticate(tok)
          => /\ verify_token(tok, now) = None
             /\ last'.status = 401
             /\ last'.detail = "Invalid token"]_vars

\* The refused token is unexpired and names a registered User: only its
\* signature is wrong.
C18_Witness ==
    /\ last.op = "get_current_user"
    /\ last.status = 401
    /\ last.tok \in ForgedTokens
    /\ last.tok.exp >= now
    /\ \E u \in DOMAIN users : users[u].username = last.tok.sub

\* C19: a well-signed, unexpired token whose subject is the username of no
\* User in the store is answered Unauthorized, with no identity.
C19_GateFailsClosed ==
    [][\A tok \in tokens :
          (/\ authenticate(tok)
           /\ verify_token(tok, now) # None
           /\ \A u \in DOMAIN users : users[u].username # tok.sub)
          => /\ last'.status = 401
             /\ last'.detail = "Invalid token"]_vars

C19_Witness ==
    /\ last.op = "get_current_user"
    /\ last.status = 401
    /\ last.tok.key = SECRET_KEY
    /\ last.tok.sub = "ghost@example.com"
    /\ last.tok.exp > now
    /\ users # EmptyTable

\* C20: every presented token the gate rejects, for whichever reason, gets
\* the same answer: status 401 and detail "Invalid token".
WhyRejected(tok) ==
    IF tok.key # SECRET_KEY THEN "signature"
    ELSE IF tok.exp < now THEN "expired"
    ELSE IF tok.sub = None THEN "no subject"
    ELSE IF \A u \in DOMAIN users : users[u].username # tok.sub THEN "no user"
    ELSE "accepted"

C20_RejectionIsUniform ==
    [][\A tok \in RequestTokens \ {NoToken} :
          (authenticate(tok) /\ WhyRejected(tok) # "accepted")
          => /\ last'.status = Unauthorized.status
             /\ last'.detail = Unauthorized.detail]_vars

\* An expired token of a registered User was rejected while the gate also
\* holds a token it rejects for having no User.
C20_Witness ==
    /\ last.op = "get_current_user"
    /\ last.status = 401
    /\ last.tok \in tokens
    /\ WhyRejected(last.tok) = "expired"
    /\ \E u \in DOMAIN users : users[u].username = last.tok.sub
    /\ \E tok \in tokens : WhyRejected(tok) = "no user"

\* C21: no revocation.  A token issued for a User is accepted by the gate in
\* every state where now < exp and a User with the token's subject exists,
\* whatever logins, registrations and entity mutations happened since.
C21_NoRevocation ==
    \A tok \in tokens :
        (/\ now < tok.exp
         /\ \E u \in DOMAIN users : users[u].username = tok.sub)
        => get_current_user(tok, users, now).status = 200

\* An earlier token is still accepted after a later login of the same user
\* and after an entity mutation.
C21_Witness ==
    /\ \E old, new \in tokens :
          /\ old.sub = new.sub
          /\ old.exp < new.exp
          /\ now < old.exp
          /\ get_current_user(old, users, now).status = 200
    /\ db # EmptyDb
    /\ last.op \in {"add_country", "remove_country", "add_publisher", "remove_publisher"}
    /\ last.status = 200

\* C22: a mutation that answers with an error (404, 400, 422, or the 500 of a
\* constraint violation) leaves the store as it was: no row of any table, the
\* users table included, is added, removed or changed.
C22_ErrorLeavesStoreUnchanged ==
    [][last'.status # 200 => (db' = db /\ users' = users)]_vars

\* An update was refused by a constraint of a store that holds rows.
C22_Witness ==
    /\ last.op \in {"edit_operator", "update_advertiser_details", "update_campaign_by_id"}
    /\ last.status = 500
    /\ last.detail = "IntegrityError"
    /\ db.operators # EmptyTable

\* C23: update is partial for every entity type.  A PUT on row `id` of table
\* `t` changes a stored field only of that row and only to the value the patch
\* supplies for it; every field the patch leaves out keeps its value, no row
\* appears or disappears, and when the PUT succeeds every supplied column has
\* the supplied value.
PartialUpdate(t, id, patch) ==
    /\ DOMAIN db'[t] = DOMAIN db[t]
    /\ \A u \in (DOMAIN db) \ {t} : db'[u] = db[u]
    /\ \A i \in DOMAIN db[t] :
          \A f \in DOMAIN db[t][i] :
             db'[t][i][f] # db[t][i][f]
             => (i = id /\ f \in DOMAIN patch /\ db'[t][i][f] = patch[f])
    /\ (last'.status = 200 /\ id \in DOMAIN db[t])
       => \A f \in (DOMAIN patch) \cap DOMAIN db[t][id] : db'[t][id][f] = patch[f]

C23_UpdateIsPartial ==
    [][/\ last'.op = "edit_country"
          => \A id \in OldestOrMissing(db.countries), country \in CountryPatches :
                edit_country(NoToken, id, country)
                => PartialUpdate("countries", id, country)
       /\ last'.op = "edit_operator"
          => \A id \in OldestOrMissing(db.operators), operator \in OperatorPatches(db) :
                edit_operator(NoToken, id, operator)
                => PartialUpdate("operators", id, operator)
       /\ last'.op = "update_advertiser_details"
          => \A id \in OldestOrMissing(db.advertisers), advertiser \in AdvertiserPatches(db) :
                update_advertiser_details(NoToken, id, advertiser)
                => PartialUpdate("advertisers", id, advertiser)
       /\ last'.op = "edit_publisher"
          => \A id \in OldestOrMissing(db.publishers), publisher \in PublisherPatches :
                edit_publisher(NoToken, id, publisher)
                => PartialUpdate("publishers", id, publisher)
       /\ last'.op = "update_campaign_by_id"
          => \A id \in OldestOrMissing(db.campaigns), campaign \in CampaignPatches(db) :
                update_campaign_by_id(NoToken, id, campaign)
                => PartialUpdate("campaigns", id, campaign)]_vars

\* A PUT that supplied only the name renamed an operator and left its country.
C23_Witness ==
    /\ last.op = "edit_operator"
    /\ last.status = 200
    /\ \E o \in DOMAIN db.operators :
          db.operators[o].name = "Op2" /\ db.operators[o].country_id # NULL

\* C24: a Campaign that create_campaign stores has a column isLive, and it is
\* false in the row as created.
C24_CreatedCampaignIsNotLive ==
    [][\A body \in TxCampaignBodies(db) :
          (add_campaign(NoToken, body) /\ last'.status = 200)
          => LET id == NextId(db.campaigns)
             IN /\ "isLive" \in DOMAIN db'.campaigns[id]
                /\ db'.campaigns[id].isLive = FALSE]_vars

\* C25: delete_campaign on a Campaign that exists succeeds, whatever other
\* rows the store holds, and removes that Campaign and nothing else.
C25_CampaignAlwaysDeletable ==
    [][last'.op = "delete_campaign_by_id"
       => \A id \in DOMAIN db.campaigns :
             delete_campaign_by_id(NoToken, id)
             => /\ last'.status = 200
                /\ db' = [db EXCEPT !.campaigns = Remove(@, {id})]]_vars

\* A Campaign was deleted while another Campaign and its parents stayed.
C25_Witness ==
    /\ last.op = "delete_campaign_by_id"
    /\ last.status = 200
    /\ last.deleted = 1
    /\ db.campaigns # EmptyTable
    /\ db.publishers # EmptyTable
    /\ db.advertisers # EmptyTable

\* C26: after create_user(u, p) the stored password is not p;
\* authenticate_user(u, p) returns the User; authenticate_user(u, q) returns
\* no user for every q other than p; and authenticate_user returns no user
\* for a username that is not in the store.
C26_PasswordStoredHashedAndVerified ==
    [][last'.op = "register_user"
       => \A user \in UserBodies :
             (register_user(user) /\ last'.status = 200)
             => /\ users'[NextId(users)].username = user.username
                /\ users'[NextId(users)].password # user.password
                /\ authenticate_user(users', user.username, user.password) = user.username
                /\ \A q \in Passwords \ {user.password} :
                      authenticate_user(users', user.username, q) = None
                /\ \A p \in Passwords :
                      authenticate_user(users', "ghost@example.com", p) = None]_vars

\* C27: token round trip.  The token a successful login issues for User u
\* carries sub = u.username and exp = the time of issue + 30 minutes, and the
\* gate, given that token at any time before exp, answers with exactly u.
C27_LoginTokenRoundTrip ==
    [][last'.op = "login_user"
       => \A username \in Usernames, password \in Passwords :
             (login_user(username, password) /\ last'.status = 200)
             => \E tok \in tokens' :
                   /\ tokens' = tokens \cup {tok}
                   /\ tok.sub = username
                   /\ tok.exp = now + 30
                   /\ \A t \in now..(tok.exp - 1) :
                         get_current_user(tok, users', t) =
                            [status |-> 200, detail |-> username]]_vars

\* A login after the clock has moved issued a token that is now accepted.
C27_Witness ==
    /\ last.op = "login_user"
    /\ last.status = 200
    /\ now > 0
    /\ \E tok \in tokens :
          /\ tok.exp = now + 30
          /\ get_current_user(tok, users, now) = [status |-> 200, detail |-> tok.sub]

\* C28: uniqueness holds in every reachable state, after any sequence of
\* inserts and updates, renames included: no two Campaigns share a name, no
\* two Countries a code or a name, no two Publishers a name, no two
\* Advertisers an email, no two Users a username.
NoTwoShare(t, col) == \A i, j \in DOMAIN t : i # j => t[i][col] # t[j][col]

C29_CreateWithMissingParentIsNotFound ==
    [][/\ last'.op = "add_operator"
          => \A operator \in AnyOperatorBodies(db) :
                (/\ add_operator(NoToken, operator)
                 /\ operator.country_id \notin DOMAIN db.countries)
                => (last'.status = 404 /\ db' = db)
       /\ last'.op = "add_advertiser"
          => \A advertiser \in AnyAdvertiserBodies(db) :
                (/\ add_advertiser(NoToken, advertiser)
                 /\ \/ advertiser.operator_id \notin DOMAIN db.operators
                    \/ advertiser.country_id \notin DOMAIN db.countries)
                => (last'.status = 404 /\ db' = db)]_vars

\* C30: a PUT whose patch names a row that does not exist is answered 404
\* and changes nothing: for a Campaign the 404 names the first missing
\* reference in the order publisher, country, operator, advertiser; for an
\* Operator the reference is country_id, for an Advertiser operator_id and
\* country_id.
Dangling(patch, f, t) == f \in DOMAIN patch /\ patch[f] \notin DOMAIN t

PatchFirstMissing(d, patch) ==
    IF Dangling(patch, "publisher_id", d.publishers) THEN "Publisher not found"
    ELSE IF Dangling(patch, "country_id", d.countries) THEN "Country not found"
    ELSE IF Dangling(patch, "operator_id", d.operators) THEN "Operator not found"
    ELSE IF Dangling(patch, "advertiser_id", d.advertisers) THEN "Advertiser not found"
    ELSE None

C30_UpdateWithMissingReferenceIsNotFound ==
    [][/\ last'.op = "update_campaign_by_id"
          => \A id \in OldestOrMissing(db.campaigns), campaign \in CampaignPatches(db) :
                (/\ update_campaign_by_id(NoToken, id, campaign)
                 /\ PatchFirstMissing(db, campaign) # None)
                => /\ last'.status = 404
                   /\ last'.detail = PatchFirstMissing(db, campaign)
                   /\ db' = db
       /\ last'.op = "edit_operator"
          => \A id \in DOMAIN db.operators, operator \in OperatorPatches(db) :
                (/\ edit_operator(NoToken, id, operator)
                 /\ Dangling(operator, "country_id", db.countries))
                => (last'.status = 404 /\ db' = db)
       /\ last'.op = "update_advertiser_details"
          => \A id \in DOMAIN db.advertisers, advertiser \in AdvertiserPatches(db) :
                (/\ update_advertiser_details(NoToken, id, advertiser)
                 /\ \/ Dangling(advertiser, "operator_id", db.operators)
                    \/ Dangling(advertiser, "country_id", db.countries))
                => (last'.status = 404 /\ db' = db)]_vars

\* ---------------------------------------------------------------------------
\* C31: an update or a delete of any entity type whose target id is not in the
\* store answers 404 and changes no row; a delete of a missing target is never
\* answered 400.  Update bodies are the ones their schema accepts.
NotFoundUnchanged == last'.status = 404 /\ db' = db /\ users' = users

C31_MissingTargetIsNotFound ==
    [][/\ last'.op = "edit_country"
          => \A country \in CountryBodies :
                edit_country(NoToken, Missing(db.countries), country) => NotFoundUnchanged
       /\ last'.op = "edit_operator"
          => \A operator \in OperatorPatches(db) :
                edit_operator(NoToken, Missing(db.operators), operator) => NotFoundUnchanged
       /\ last'.op = "update_advertiser_details"
          => \A advertiser \in AdvertiserPatches(db) :
                update_advertiser_details(NoToken, Missing(db.advertisers), advertiser)
                => NotFoundUnchanged
       /\ last'.op = "edit_publisher"
          => \A publisher \in PublisherBodies :
                edit_publisher(NoToken, Missing(db.publishers), publisher) => NotFoundUnchanged
       /\ last'.op = "update_campaign_by_id"
          => \A campaign \in CampaignPatches(db) :
                update_campaign_by_id(NoToken, Missing(db.campaigns), campaign)
                => NotFoundUnchanged
       /\ last'.op = "remove_country"
          => (remove_country(NoToken, Missing(db.countries)) => NotFoundUnchanged)
       /\ last'.op = "remove_operator"
          => (remove_operator(NoToken, Missing(db.operators)) => NotFoundUnchanged)
       /\ last'.op = "remove_advertiser"
          => (remove_advertiser(NoToken, Missing(db.advertisers)) => NotFoundUnchanged)
       /\ last'.op = "remove_publisher"
          => (remove_publisher(NoToken, Missing(db.publishers)) => NotFoundUnchanged)
       /\ last'.op = "delete_campaign_by_id"
          => (delete_campaign_by_id(NoToken, Missing(db.campaigns)) => NotFoundUnchanged)]_vars

\* ---------------------------------------------------------------------------
\* Publishers side by side: a store with one Country, Operator and Advertiser,
\* as many Publishers as Campaigns, registered Users, and DELETE
\* /publishers/{id}/.
FramePublisherBodies == [name : PublisherNames \cup {"Pub2"}]

NextFrame ==
    \/ \E country \in {c \in CountryBodies : c.countryCode = "US"} : add_country(NoToken, country)
    \/ \E operator \in OldestOperatorBodies(db) : add_operator(NoToken, operator)
    \/ \E advertiser \in OldestAdvertiserBodies(db) : add_advertiser(NoToken, advertiser)
    \/ \E publisher \in FramePublisherBodies :
          /\ NextId(db.publishers) <= MaxCampaigns
          /\ Respond("add_publisher", NoToken, create_publisher(db, publisher))
    \/ \E body \in TxCampaignBodies(db) : add_campaign(NoToken, body)
    \/ \E user \in {u \in UserBodies : u.password = [first72 |-> "pw1", rest |-> ""]} :
          register_user(user)
    \/ \E id \in Refs(db.publishers) : remove_publisher(NoToken, id)

SpecFrame == Init /\ [][NextFrame]_vars

\* What DELETE /publishers/{p}/ leaves alone: Publisher p and the Campaigns
\* with publisher_id = p aside, every row of the store.
OnlyPublisherAndItsCampaignsRemoved(p) ==
    /\ db'.countries = db.countries
    /\ db'.operators = db.operators
    /\ db'.advertisers = db.advertisers
    /\ users' = users
    /\ DOMAIN db'.publishers = (DOMAIN db.publishers) \ {p}
    /\ \A q \in DOMAIN db'.publishers : db'.publishers[q] = db.publishers[q]
    /\ DOMAIN db'.campaigns = {k \in DOMAIN db.campaigns : db.campaigns[k].publisher_id # p}
    /\ \A k \in DOMAIN db'.campaigns : db'.campaigns[k] = db.campaigns[k]

\* C32: delete_publisher(p) removes only the Publisher p and the Campaigns with
\* publisher_id = p; every Campaign of another Publisher and every Country,
\* Operator, Advertiser, User and other Publisher is unchanged.
C32_DeletePublisherFrame ==
    [][last'.op = "remove_publisher"
          => \A p \in DOMAIN db.publishers :
                remove_publisher(NoToken, p) => OnlyPublisherAndItsCampaignsRemoved(p)]_vars

\* A Publisher was deleted together with a Campaign of its own, while another
\* Publisher, a Campaign of that Publisher and a User stay.
C32_Witness ==
    /\ last.op = "remove_publisher"
    /\ last.status = 200
    /\ last.deleted = 2
    /\ \E q \in DOMAIN db.publishers :
          \E k \in DOMAIN db.campaigns : db.campaigns[k].publisher_id = q
    /\ DOMAIN users # {}
    /\ db.countries # EmptyTable /\ db.operators # EmptyTable /\ db.advertisers # EmptyTable

\* ---------------------------------------------------------------------------
\* C33: verify_token is sound.  Whenever it returns a subject s for a token a
\* client can present, the token was signed with the process secret, its sub
\* claim is s and its expiry has not passed; a well-signed, unexpired token
\* that has no sub claim is rejected.
C33_VerifyTokenSound ==
    \A tok \in tokens \cup ForgedTokens :
        /\ verify_token(tok, now) # None
           => /\ tok.key = SECRET_KEY
              /\ tok.sub = verify_token(tok, now)
              /\ tok.exp >= now
        /\ (tok.key = SECRET_KEY /\ tok.exp >= now /\ tok.sub = None)
           => verify_token(tok, now) = None

\* A request carried a token that verify_token accepts, while the store of
\* issued tokens also holds a well-signed, unexpired token with no sub claim.
C33_Witness ==
    /\ last.op = "get_current_user"
    /\ last.status = 200
    /\ verify_token(last.tok, now) = last.tok.sub
    /\ last.tok.sub # None
    /\ \E tok \in tokens : tok.key = SECRET_KEY /\ tok.exp >= now /\ tok.sub = None
====
